---- MODULE Spec2Model ----
(***************************************************************************)
(* Profile store of the Next.js/Supabase template: the profiles table and  *)
(* its constraints, the sync trigger on auth.users, the row-level-security  *)
(* policies, the profile-update route handler (POST /api/profile), the      *)
(* profile page read, the development bootstrap of the schema             *)
(* (/api/setup/database) and the environment validation script.            *)
(***************************************************************************)
EXTENDS Naturals, FiniteSets, Sequences, TLC

\* ---------------------------------------------------------------- bounds
NumIds == 2
NumReqs == 2
MaxTime == 1

Ids == 1..NumIds
Reqs == 1..NumReqs

\* ---------------------------------------------------------------- values
NULL == "<null>"
UNDEF == "<undefined>"
NoSession == 0

Emails == {"u1@x.com", "u2@x.com"}
Usernames == {"alice", "bob"}
FullNames == {"Ann"}
Bios == {"hi"}

\* HTTP statuses of the route handler (NextResponse.json defaults to 200).
StatusOk == 200
StatusConflict == 400
StatusUnauthorized == 401
StatusError == 500
\* No HTTP answer: a store operation, a redirect, or a handler still running.
StatusNone == 0

\* PostgreSQL error classes raised by the store.
ErrNone == "ok"
ErrNotNull == "23502 not_null_violation"
ErrForeignKey == "23503 foreign_key_violation"
ErrUnique == "23505 unique_violation"
ErrNoTable == "42P01 undefined_table"
ErrExists == "42710 already exists"
ErrNoObject == "42883 undefined object"
ErrArg == "prisma validation: email missing"
ErrNet == "P1017 server has closed the connection"
ErrRedirect == "redirect /login"

\* Statements executed on public.profiles.
WroteNone == "none"
WroteInsert == "INSERT"
WroteUpdate == "UPDATE"
WroteDelete == "DELETE"

\* ---------------------------------------------------------------- schema
\* Objects that the setup statements create in the database.
ObjTable == "public.profiles"
ObjFnNewUser == "function handle_new_user"
ObjTrgNewUser == "trigger on_auth_user_created"
ObjRls == "row level security"
ObjPolSelect == "policy Users can view own profile"
ObjPolUpdate == "policy Users can update own profile"
ObjFnUpdatedAt == "function handle_updated_at"
ObjTrgUpdatedAt == "trigger handle_profiles_updated_at"

FullSchema ==
    {ObjTable, ObjFnNewUser, ObjTrgNewUser, ObjRls, ObjPolSelect, ObjPolUpdate,
     ObjFnUpdatedAt, ObjTrgUpdatedAt}

VARIABLES
    schema,     \* the database objects installed so far
    users,      \* rows of auth.users: [id, email]
    usedIds,    \* identifiers ever issued to an identity (UUIDs are never reused)
    profiles,   \* rows of public.profiles
    now,        \* the store's clock
    reqs,       \* the profile-update requests in flight, by slot
    lastOp,     \* the operation that took the last step, and what it answered
    env,        \* process.env.NODE_ENV of the application
    boot,       \* the bootstrap request (/api/setup/database) being handled
    validation, \* the run of scripts/validate-env.js: its inputs and its outcome
    form,       \* the state of the ResetPasswordForm component and of its handler
    nav,        \* the state of the Navbar component, its timers and its sign-outs
    page        \* the render of the profile page in flight: its position and its user

vars == <<schema, users, usedIds, profiles, now, reqs, lastOp, env, boot, validation, form, nav, page>>

\* ---------------------------------------------------------------- rows
Row(id, email, username, fullName, avatarUrl, bio, createdAt, updatedAt) ==
    [id |-> id, email |-> email, username |-> username, fullName |-> fullName,
     avatarUrl |-> avatarUrl, bio |-> bio, createdAt |-> createdAt,
     updatedAt |-> updatedAt]

UserIds(U) == {u.id : u \in U}
ProfileIds(P) == {p.id : p \in P}
UserOf(U, id) == CHOOSE u \in U : u.id = id
RowsOf(P, id) == {p \in P : p.id = id}

\* JavaScript truthiness of a request field, and `value || null`.
Truthy(v) == v \notin {UNDEF, NULL, ""}
OrNull(v) == IF Truthy(v) THEN v ELSE NULL

\* What the last step was: the operation, its caller (or the identity it is
\* about), the HTTP status and the error of its answer, the rows it returned
\* and the statement it executed on profiles; for an upsert, prev is the
\* caller's row as the upsert found it.
Op(op, who, status, err, rows, wrote) ==
    [op |-> op, who |-> who, status |-> status, err |-> err, rows |-> rows,
     wrote |-> wrote, prev |-> {}]

NoUser == [id |-> NoSession, email |-> NULL]
NoBody == [username |-> UNDEF, fullName |-> UNDEF, bio |-> UNDEF]
IdleReq == [pc |-> "done", user |-> NoUser, body |-> NoBody]
IdlePage == [pc |-> "idle", user |-> NoUser]

\* Request payloads {username?, fullName?, bio?}: fields omitted, empty or set.
Body(username, fullName, bio) ==
    [username |-> username, fullName |-> fullName, bio |-> bio]

Bodies ==
    {Body(UNDEF, UNDEF, UNDEF), Body("", "", ""),
     Body("alice", "Ann", "hi"), Body("bob", UNDEF, UNDEF)}

\* ---------------------------------------------------------------- store
\* The insert checks of a table whose id has no foreign key to auth.users.
InsertErrorNoForeignKey(U, P, row) ==
    IF row.email = NULL THEN ErrNotNull
    ELSE IF \E p \in P : \/ p.id = row.id
                         \/ p.email = row.email
                         \/ (row.username # NULL /\ p.username = row.username)
         THEN ErrUnique
    ELSE ErrNone

\* Constraints of public.profiles checked on INSERT: email NOT NULL, the
\* primary key on id, UNIQUE(email), UNIQUE(username) (NULLs never collide),
\* and the foreign key id -> auth.users.
InsertError(U, P, row) ==
    IF row.email = NULL THEN ErrNotNull
    ELSE IF \E p \in P : \/ p.id = row.id
                         \/ p.email = row.email
                         \/ (row.username # NULL /\ p.username = row.username)
         THEN ErrUnique
    ELSE IF row.id \notin UserIds(U) THEN ErrForeignKey
    ELSE ErrNone

\* The update checks of a table whose username column is not UNIQUE.
UpdateErrorNoUsername(P, old, new) ==
    IF new.email = NULL THEN ErrNotNull
    ELSE IF \E p \in P \ {old} : p.id = new.id \/ p.email = new.email
         THEN ErrUnique
    ELSE ErrNone

\* Constraints checked when row `old` of P is replaced by `new` (same id).
UpdateError(P, old, new) ==
    IF new.email = NULL THEN ErrNotNull
    ELSE IF \E p \in P \ {old} : \/ p.id = new.id
                                 \/ p.email = new.email
                                 \/ (new.username # NULL /\ p.username = new.username)
         THEN ErrUnique
    ELSE ErrNone

\* A profiles table with no foreign key to auth.users: deleting the identity
\* leaves its row.
OnDeleteKeep(P, id) == P

\* id UUID REFERENCES auth.users ON DELETE CASCADE.
OnDeleteCascade(P, id) == {p \in P : p.id # id}

\* handle_updated_at() assigning the creation time: NEW.updated_at =
\* NEW.created_at.
HandleUpdatedAtFromCreatedAt(S, new, t) ==
    IF ObjTrgUpdatedAt \in S THEN [new EXCEPT !.updatedAt = new.createdAt] ELSE new

\* BEFORE UPDATE trigger handle_updated_at: NEW.updated_at = now().
HandleUpdatedAt(S, new, t) ==
    IF ObjTrgUpdatedAt \in S THEN [new EXCEPT !.updatedAt = t] ELSE new

\* handle_new_user() filling full_name as well, as a trigger that copies the
\* sign-up metadata would.
HandleNewUserWithName(new, t) ==
    Row(new.id, new.email, NULL, "Ann", NULL, NULL, t, t)

\* The row that handle_new_user() inserts for the new auth.users row: id and
\* email from the identity, the other columns at their defaults.
HandleNewUser(new, t) ==
    Row(new.id, new.email, NULL, NULL, NULL, NULL, t, t)

\* The insert into auth.users with no trigger on it: no profile row is made.
InsertUserTxNoTrigger(S, U, P, new, t) ==
    [err |-> ErrNone, users |-> U \cup {new}, profiles |-> P, wrote |-> WroteNone]

\* The trigger's error reported but the auth.users row kept (the profile insert
\* made outside the inserting transaction).
InsertUserTxNoRollback(S, U, P, new, t) ==
    LET row == HandleNewUser(new, t)
        err == InsertError(U \cup {new}, P, row)
    IN  [err |-> err, users |-> U \cup {new},
         profiles |-> IF err = ErrNone THEN P \cup {row} ELSE P,
         wrote |-> WroteInsert]

\* INSERT INTO auth.users with the AFTER INSERT FOR EACH ROW trigger running in
\* the inserting transaction: an error raised by the trigger aborts the insert.
InsertUserTx(S, U, P, new, t) ==
    LET U2 == U \cup {new}
        row == HandleNewUser(new, t)
        fires == ObjTrgNewUser \in S
        err == IF ~fires THEN ErrNone
               ELSE IF ObjTable \notin S THEN ErrNoTable
               ELSE InsertError(U2, P, row)
        wrote == IF fires /\ ObjTable \in S THEN WroteInsert ELSE WroteNone
    IN  IF err # ErrNone
        THEN [err |-> err, users |-> U, profiles |-> P, wrote |-> wrote]
        ELSE [err |-> ErrNone, users |-> U2,
              profiles |-> IF fires THEN P \cup {row} ELSE P, wrote |-> wrote]

\* ---------------------------------------------------------------- identities
\* The auth provider registers identity i with email e (email/password sign-up:
\* every identity has an email).
CreateIdentity(i, e) ==
    /\ i \notin usedIds
    /\ LET tx == InsertUserTx(schema, users, profiles, [id |-> i, email |-> e], now)
       IN  /\ users' = tx.users
           /\ profiles' = tx.profiles
           /\ usedIds' = IF tx.err = ErrNone THEN usedIds \cup {i} ELSE usedIds
           /\ lastOp' = Op("createIdentity", i, StatusNone, tx.err, {}, tx.wrote)
    /\ UNCHANGED <<schema, now, reqs, env, boot, validation, form, nav, page>>

\* The auth provider deletes identity i; the foreign key cascades.
DeleteIdentity(i) ==
    /\ i \in UserIds(users)
    /\ users' = {u \in users : u.id # i}
    /\ profiles' = OnDeleteCascade(profiles, i)
    /\ lastOp' = Op("deleteIdentity", i, StatusNone, ErrNone, {},
                     IF ObjTable \in schema THEN WroteDelete ELSE WroteNone)
    /\ UNCHANGED <<schema, usedIds, now, reqs, env, boot, validation, form, nav, page>>

\* Time passes.
Tick ==
    /\ now < MaxTime
    /\ now' = now + 1
    /\ UNCHANGED <<schema, users, usedIds, profiles, reqs, lastOp, env, boot, validation, form, nav, page>>

\* ---------------------------------------------------------------- POST /api/profile
\* The user read from the session cookie alone, never validated against the
\* auth provider (getSession() in place of getUser()).
GetUserFromCookie(U, token) ==
    IF token = NoSession THEN NoUser
    ELSE IF token \in UserIds(U) THEN UserOf(U, token)
    ELSE [id |-> token, email |-> NULL]

\* supabase.auth.getUser(): the user of the request's session, or none when the
\* request carries no session or the session's identity no longer exists.
GetUser(U, token) ==
    IF token \in UserIds(U) THEN UserOf(U, token) ELSE NoUser

\* A conflict lookup that leaves out NOT: {id: user.id}: the caller's own row
\* counts as a holder.
FindFirstAny(P, username, uid) ==
    {p \in P : p.username = username}

\* The conflict lookup matching the wrong column.
FindFirstOtherByEmail(P, username, uid) ==
    {p \in P : p.email = username /\ p.id # uid}

\* prisma.profile.findFirst({where: {username, NOT: {id: user.id}}}): the rows
\* of other identities that hold the requested username.
FindFirstOther(P, username, uid) ==
    {p \in P : p.username = username /\ p.id # uid}

\* An update payload that also resets createdAt, as a write of the whole row
\* from the `create` payload would.
UpsertUpdateRowResetCreatedAt(old, body, t) ==
    [old EXCEPT !.username = OrNull(body.username),
                !.fullName = OrNull(body.fullName),
                !.bio = OrNull(body.bio),
                !.createdAt = t,
                !.updatedAt = t]

\* An update payload that writes only the fields the request carries
\* (username: username ?? undefined), keeping the stored value otherwise.
UpsertUpdateRowKeepOmitted(old, body, t) ==
    [old EXCEPT !.username = IF Truthy(body.username) THEN body.username ELSE old.username,
                !.fullName = IF Truthy(body.fullName) THEN body.fullName ELSE old.fullName,
                !.bio = IF Truthy(body.bio) THEN body.bio ELSE old.bio,
                !.updatedAt = t]

\* An update payload that leaves fullName out.
UpsertUpdateRowNoFullName(old, body, t) ==
    [old EXCEPT !.username = OrNull(body.username),
                !.bio = OrNull(body.bio),
                !.updatedAt = t]

\* The `update` payload of the upsert applied to the caller's existing row.
UpsertUpdateRow(old, body, t) ==
    [old EXCEPT !.username = OrNull(body.username),
                !.fullName = OrNull(body.fullName),
                !.bio = OrNull(body.bio),
                !.updatedAt = t]

\* The `create` payload of the upsert.
UpsertCreateRow(user, body, t) ==
    Row(user.id, user.email, OrNull(body.username), OrNull(body.fullName), NULL,
        OrNull(body.bio), t, t)

\* What the connection to the store does during one call of the ORM: it
\* carries the call and the answer, it fails before the statement reaches the
\* store, or it fails after the store committed and before the answer arrives.
NetOk == "answered"
NetFailsBefore == "connection failed before the statement"
NetFailsAfter == "connection failed after the commit"
NetOutcomes == {NetOk, NetFailsBefore, NetFailsAfter}

\* prisma.profile.upsert({where: {id: user.id}, update, create}) against the
\* store, over a connection that does `net`: the error it throws (ErrNone when
\* it returns), the table afterwards and the row it returns. The client
\* validates the whole argument (create.email is required) before it sends a
\* query; a call whose answer is lost throws although the store did its part.
Upsert(S, U, P, user, body, t, net) ==
    LET mine == RowsOf(P, user.id)
        fail(e, w) == [err |-> e, profiles |-> P, rows |-> {}, wrote |-> w]
        lost(res) == IF net = NetFailsAfter
                     THEN [res EXCEPT !.err = ErrNet, !.rows = {}]
                     ELSE res
    IN  IF user.email = NULL THEN fail(ErrArg, WroteNone)
        ELSE IF net = NetFailsBefore THEN fail(ErrNet, WroteNone)
        ELSE IF ObjTable \notin S THEN lost(fail(ErrNoTable, WroteNone))
        ELSE IF mine # {}
        THEN LET old == CHOOSE p \in mine : TRUE
                 new == HandleUpdatedAt(S, UpsertUpdateRow(old, body, t), t)
                 e == UpdateError(P, old, new)
             IN  IF e # ErrNone THEN lost(fail(e, WroteUpdate))
                 ELSE lost([err |-> ErrNone, profiles |-> (P \ {old}) \cup {new},
                            rows |-> {new}, wrote |-> WroteUpdate])
        ELSE LET new == UpsertCreateRow(user, body, t)
                 e == InsertError(U, P, new)
             IN  IF e # ErrNone THEN lost(fail(e, WroteInsert))
                 ELSE lost([err |-> ErrNone, profiles |-> P \cup {new}, rows |-> {new},
                            wrote |-> WroteInsert])

\* A request arrives in slot r with the session of `token` (NoSession: none) and
\* payload `body`; the handler runs up to its first store access.
PostStart(r, token, body) ==
    /\ reqs[r].pc = "done"
    /\ token \in usedIds \cup {NoSession}
    /\ LET user == GetUser(users, token)
       IN  IF user = NoUser
           THEN /\ reqs' = [reqs EXCEPT ![r] = IdleReq]
                /\ lastOp' = Op("post", token, StatusUnauthorized, ErrNone, {}, WroteNone)
           ELSE /\ reqs' = [reqs EXCEPT ![r] =
                              [pc |-> IF Truthy(body.username) THEN "check" ELSE "upsert",
                               user |-> user, body |-> body]]
                /\ lastOp' = Op("post:getUser", user.id, StatusNone, ErrNone, {}, WroteNone)
    /\ UNCHANGED <<schema, users, usedIds, profiles, now, env, boot, validation, form, nav, page>>

\* A conflict check whose failed lookup is taken for "no conflict".
PostCheckIgnoreFailure(r, net) ==
    /\ reqs[r].pc = "check"
    /\ LET q == reqs[r]
       IN  IF ObjTable \in schema /\ net = NetOk
              /\ FindFirstOther(profiles, q.body.username, q.user.id) # {}
           THEN /\ reqs' = [reqs EXCEPT ![r] = IdleReq]
                /\ lastOp' = Op("post", q.user.id, StatusConflict, ErrNone, {}, WroteNone)
           ELSE /\ reqs' = [reqs EXCEPT ![r].pc = "upsert"]
                /\ lastOp' = Op("post:findFirst", q.user.id, StatusNone, ErrNone, {}, WroteNone)
    /\ UNCHANGED <<schema, users, usedIds, profiles, now, env, boot, validation, form, nav, page>>

\* The username conflict check of the request in slot r, over a connection
\* that does `net`: prisma.profile.findFirst throws when its answer does not
\* arrive or the store refuses the query.
PostCheck(r, net) ==
    /\ reqs[r].pc = "check"
    /\ LET q == reqs[r]
       IN  IF net # NetOk
           THEN /\ reqs' = [reqs EXCEPT ![r] = IdleReq]
                /\ lastOp' = Op("post", q.user.id, StatusError, ErrNet, {}, WroteNone)
           ELSE IF ObjTable \notin schema
           THEN /\ reqs' = [reqs EXCEPT ![r] = IdleReq]
                /\ lastOp' = Op("post", q.user.id, StatusError, ErrNoTable, {}, WroteNone)
           ELSE IF FindFirstOther(profiles, q.body.username, q.user.id) # {}
           THEN /\ reqs' = [reqs EXCEPT ![r] = IdleReq]
                /\ lastOp' = Op("post", q.user.id, StatusConflict, ErrNone, {}, WroteNone)
           ELSE /\ reqs' = [reqs EXCEPT ![r].pc = "upsert"]
                /\ lastOp' = Op("post:findFirst", q.user.id, StatusNone, ErrNone, {}, WroteNone)
    /\ UNCHANGED <<schema, users, usedIds, profiles, now, env, boot, validation, form, nav, page>>

\* The upsert of the request in slot r, over a connection that does `net`, and
\* the handler's answer.
PostUpsert(r, net) ==
    /\ reqs[r].pc = "upsert"
    /\ LET q == reqs[r]
           res == Upsert(schema, users, profiles, q.user, q.body, now, net)
           ans == IF res.err = ErrNone
                  THEN Op("post", q.user.id, StatusOk, ErrNone, res.rows, res.wrote)
                  ELSE Op("post", q.user.id, StatusError, res.err, {}, res.wrote)
       IN  /\ profiles' = res.profiles
           /\ lastOp' = [ans EXCEPT !.prev = RowsOf(profiles, q.user.id)]
    /\ reqs' = [reqs EXCEPT ![r] = IdleReq]
    /\ UNCHANGED <<schema, users, usedIds, now, env, boot, validation, form, nav, page>>

\* ---------------------------------------------------------------- profile page
\* ProfilePage up to its first await: supabase.auth.getUser(), and the redirect
\* to /login without a user.
ProfilePage(token) ==
    /\ page.pc = "idle"
    /\ token \in usedIds \cup {NoSession}
    /\ LET user == GetUser(users, token)
       IN  IF user = NoUser
           THEN /\ page' = IdlePage
                /\ lastOp' = Op("page", token, StatusNone, ErrRedirect, {}, WroteNone)
           ELSE /\ page' = [pc |-> "findUnique", user |-> user]
                /\ lastOp' = Op("page:getUser", user.id, StatusNone, ErrNone, {}, WroteNone)
    /\ UNCHANGED <<schema, users, usedIds, profiles, now, reqs, env, boot, validation, form, nav>>

\* A page that reads profiles without a where clause (findMany()): every row.
PageFindMany ==
    /\ page.pc = "findUnique"
    /\ lastOp' = IF ObjTable \notin schema
                 THEN Op("page", page.user.id, StatusError, ErrNoTable, {}, WroteNone)
                 ELSE Op("page", page.user.id, StatusOk, ErrNone, profiles, WroteNone)
    /\ page' = IdlePage
    /\ UNCHANGED <<schema, users, usedIds, profiles, now, reqs, env, boot, validation, form, nav>>

\* The rest of ProfilePage: findUnique({where: {id: user.id}}) for the user
\* that getUser returned, and the page rendered with the row or with null.
PageFindUnique ==
    /\ page.pc = "findUnique"
    /\ lastOp' = IF ObjTable \notin schema
                 THEN Op("page", page.user.id, StatusError, ErrNoTable, {}, WroteNone)
                 ELSE Op("page", page.user.id, StatusOk, ErrNone,
                         RowsOf(profiles, page.user.id), WroteNone)
    /\ page' = IdlePage
    /\ UNCHANGED <<schema, users, usedIds, profiles, now, reqs, env, boot, validation, form, nav>>

\* DashboardPage: redirect without a user, else the page rendered from the
\* user alone; no profile is read.
DashboardPage(token) ==
    /\ token \in usedIds \cup {NoSession}
    /\ LET user == GetUser(users, token)
       IN  lastOp' = IF user = NoUser
                     THEN Op("dashboard", token, StatusNone, ErrRedirect, {}, WroteNone)
                     ELSE Op("dashboard", user.id, StatusOk, ErrNone, {}, WroteNone)
    /\ UNCHANGED <<schema, users, usedIds, profiles, now, reqs, env, boot, validation, form, nav, page>>

\* ---------------------------------------------------------------- access policy
\* A select policy that makes every profile public: USING (true).
PolicySelectPublic(uid, row) == TRUE

\* "Users can view own profile": FOR SELECT USING (auth.uid() = id).
PolicySelect(uid, row) == uid = row.id

\* "Users can update own profile": FOR UPDATE USING (auth.uid() = id).
PolicyUpdate(uid, row) == uid = row.id

\* Rows of P that a SELECT by caller uid sees. With row-level security enabled a
\* row is visible only when a SELECT policy admits it.
RlsSelect(S, P, uid) ==
    IF ObjRls \notin S THEN P
    ELSE {p \in P : ObjPolSelect \in S /\ PolicySelect(uid, p)}

\* Rows of P that an UPDATE by caller uid may change.
RlsUpdate(S, P, uid) ==
    IF ObjRls \notin S THEN P
    ELSE {p \in RlsSelect(S, P, uid) : ObjPolUpdate \in S /\ PolicyUpdate(uid, p)}

\* An ordinary caller (the store role of a signed-in user; NoSession: anon)
\* selects from profiles through the store's API.
ApiSelect(uid) ==
    /\ uid \in usedIds \cup {NoSession}
    /\ ObjTable \in schema
    /\ lastOp' = Op("api:select", uid, StatusOk, ErrNone,
                     RlsSelect(schema, profiles, uid), WroteNone)
    /\ UNCHANGED <<schema, users, usedIds, profiles, now, reqs, env, boot, validation, form, nav, page>>

\* An ordinary caller updates the username of the row with id `target`.
ApiUpdate(uid, target, username) ==
    /\ uid \in usedIds \cup {NoSession}
    /\ ObjTable \in schema
    /\ LET hit == RowsOf(RlsUpdate(schema, profiles, uid), target)
       IN  IF hit = {}
           THEN /\ profiles' = profiles
                /\ lastOp' = Op("api:update", uid, StatusOk, ErrNone, {}, WroteNone)
           ELSE LET old == CHOOSE p \in hit : TRUE
                    new == HandleUpdatedAt(schema, [old EXCEPT !.username = username], now)
                    e == UpdateError(profiles, old, new)
                IN  IF e # ErrNone
                    THEN /\ profiles' = profiles
                         /\ lastOp' = Op("api:update", uid, StatusConflict, e, {}, WroteUpdate)
                    ELSE /\ profiles' = (profiles \ {old}) \cup {new}
                         /\ lastOp' = Op("api:update", uid, StatusOk, ErrNone, {new}, WroteUpdate)
    /\ UNCHANGED <<schema, users, usedIds, now, reqs, env, boot, validation, form, nav, page>>

\* ---------------------------------------------------------------- setup script
NumStatements == 12

\* The setup statements without DROP TRIGGER IF EXISTS on_auth_user_created
\* before the trigger is created.
ExecSqlNoDrop(S, k) ==
    LET ok(T) == [err |-> ErrNone, schema |-> T]
        fail(e) == [err |-> e, schema |-> S]
        create(obj, needs) ==
            IF obj \in S THEN fail(ErrExists)
            ELSE IF ObjTable \in needs \ S THEN fail(ErrNoTable)
            ELSE IF ~(needs \subseteq S) THEN fail(ErrNoObject)
            ELSE ok(S \cup {obj})
    IN  CASE k = 1 -> ok(S \cup {ObjTable})
          [] k = 2 -> ok(S \cup {ObjFnNewUser})
          [] k = 3 -> ok(S)
          [] k = 4 -> create(ObjTrgNewUser, {ObjFnNewUser})
          [] k = 5 -> IF ObjTable \in S THEN ok(S \cup {ObjRls}) ELSE fail(ErrNoTable)
          [] k = 6 -> ok(S \ {ObjPolSelect})
          [] k = 7 -> create(ObjPolSelect, {ObjTable})
          [] k = 8 -> ok(S \ {ObjPolUpdate})
          [] k = 9 -> create(ObjPolUpdate, {ObjTable})
          [] k = 10 -> ok(S \cup {ObjFnUpdatedAt})
          [] k = 11 -> ok(S \ {ObjTrgUpdatedAt})
          [] k = 12 -> create(ObjTrgUpdatedAt, {ObjTable, ObjFnUpdatedAt})

\* The k-th statement of the setup script executed on schema S: the error it
\* raises (ErrNone when it succeeds) and the schema afterwards.
ExecSql(S, k) ==
    LET ok(T) == [err |-> ErrNone, schema |-> T]
        fail(e) == [err |-> e, schema |-> S]
        create(obj, needs) ==
            IF obj \in S THEN fail(ErrExists)
            ELSE IF ObjTable \in needs \ S THEN fail(ErrNoTable)
            ELSE IF ~(needs \subseteq S) THEN fail(ErrNoObject)
            ELSE ok(S \cup {obj})
    IN  CASE k = 1 -> ok(S \cup {ObjTable})
          [] k = 2 -> ok(S \cup {ObjFnNewUser})
          [] k = 3 -> ok(S \ {ObjTrgNewUser})
          [] k = 4 -> create(ObjTrgNewUser, {ObjFnNewUser})
          [] k = 5 -> IF ObjTable \in S THEN ok(S \cup {ObjRls}) ELSE fail(ErrNoTable)
          [] k = 6 -> ok(S \ {ObjPolSelect})
          [] k = 7 -> create(ObjPolSelect, {ObjTable})
          [] k = 8 -> ok(S \ {ObjPolUpdate})
          [] k = 9 -> create(ObjPolUpdate, {ObjTable})
          [] k = 10 -> ok(S \cup {ObjFnUpdatedAt})
          [] k = 11 -> ok(S \ {ObjTrgUpdatedAt})
          [] k = 12 -> create(ObjTrgUpdatedAt, {ObjTable, ObjFnUpdatedAt})

\* The script from statement k on, run as one transaction: the first error
\* aborts it and leaves the schema as it was.
RECURSIVE RunScript(_, _, _)
RunScript(S0, S, k) ==
    IF k > NumStatements THEN S
    ELSE LET r == ExecSql(S, k)
         IN  IF r.err # ErrNone THEN S0 ELSE RunScript(S0, r.schema, k + 1)

\* The error that aborts the script run from statement k on schema S (ErrNone
\* when every statement succeeds).
RECURSIVE ScriptError(_, _)
ScriptError(S, k) ==
    IF k > NumStatements THEN ErrNone
    ELSE LET r == ExecSql(S, k)
         IN  IF r.err # ErrNone THEN r.err ELSE ScriptError(r.schema, k + 1)

\* supabase-setup.sql is run in the SQL editor.
RunSetupScript ==
    /\ schema' = RunScript(schema, schema, 1)
    /\ lastOp' = Op("setupScript", NoSession, StatusNone, ScriptError(schema, 1), {},
                     WroteNone)
    /\ UNCHANGED <<users, usedIds, profiles, now, reqs, env, boot, validation, form, nav, page>>

\* ---------------------------------------------------------------- bootstrap endpoint
\* Calls of one bootstrap request that may throw.
MaxFaults == 1

EnvDevelopment == "development"
EnvProduction == "production"
EnvTest == "test"
Envs == {EnvDevelopment, EnvProduction, EnvTest}

StatusForbidden == 403

\* The X-Setup-Secret header the handler compares with, and the values a
\* request may carry (NULL: header absent).
SetupSecret == "development-only"
Secrets == {NULL, SetupSecret, "Development-Only"}

\* The exec_sql procedure that the handler calls: not created by the setup
\* statements, it is in the database only when installed beforehand.
ObjExecSql == "function exec_sql"
ErrNoFunction == "PGRST202 could not find the function exec_sql"

\* error.message.includes('already exists')
IncludesAlreadyExists(message) == message = ErrExists

\* Outcomes of createClient(url, serviceRoleKey): the client, or an exception
\* when one of the two variables is not set.
ClientCreated == "created"
ClientThrows == "supabaseKey is required."
ClientOutcomes == {ClientCreated, ClientThrows}

\* Outcomes of supabaseAdmin.rpc('exec_sql', ...): the call returns (with or
\* without an error in its result), throws before the statement reached the
\* database, or throws after the database ran it.
RpcReturns == "returns"
RpcThrows == "throws"
RpcThrowsLate == "throws after the statement ran"
RpcOutcomes == {RpcReturns, RpcThrows, RpcThrowsLate}

\* Outcomes of the query from('profiles').select('count'): no error, an error
\* with code PGRST116, an error with another code, or a thrown exception.
QueryOk == "no error"
QueryNoRows == "PGRST116"
QueryNoTable == "42P01"
QueryThrows == "thrown"

\* The outcomes the query can have on schema S: PGRST116 is the API's answer
\* when the rows found are not the ones asked for, so the table is there; a
\* missing table is answered with another code.
QueryOutcomes(S) ==
    IF ObjTable \in S THEN {QueryOk, QueryNoRows, QueryThrows}
    ELSE {QueryNoTable, QueryThrows}

\* Entries of `results`: {sql, success: true} or {sql, error}.
Success(k) == [k |-> k, success |-> TRUE, error |-> ErrNone]
Failure(k, message) == [k |-> k, success |-> FALSE, error |-> message]

ErrDirectFailed == "Direct execution failed"
ErrExecutionFailed == "Execution failed"

\* The result entry pushed for statement k when rpc returned `error`.
RpcEntry(k, error) ==
    IF error # ErrNone /\ ~IncludesAlreadyExists(error)
    THEN Failure(k, error)
    ELSE Success(k)

\* The result entry pushed in the catch block, after the query on profiles
\* answered q.
CatchEntry(k, q) ==
    IF q = QueryThrows THEN Failure(k, ErrExecutionFailed)
    ELSE IF q = QueryOk \/ q = QueryNoRows THEN Success(k)
    ELSE Failure(k, ErrDirectFailed)

\* The bootstrap request: where the handler is (pc, k), what it has done
\* (results, the statements passed to rpc, the table queries made, the calls
\* that threw) and, once answered, its response.
BootState(pc, method, secret, k, results, calls, queries, faults, status, report, init) ==
    [pc |-> pc, method |-> method, secret |-> secret, k |-> k, results |-> results,
     calls |-> calls, queries |-> queries, faults |-> faults, status |-> status,
     report |-> report, initialized |-> init]

\* A response: the request's record with the handler finished, the status, the
\* result entries of the body (<<>>: none) and its `initialized` field ("true",
\* "false", NULL: none).
BootAnswer(b, status, report, initialized) ==
    [b EXCEPT !.pc = "idle", !.status = status, !.report = report,
              !.initialized = initialized]

IdleBoot ==
    BootState("idle", "none", NULL, 0, <<>>, <<>>, 0, 0, StatusNone, <<>>, NULL)

\* POST and GET: `process.env.NODE_ENV === 'production'` answers 403.
BootGate(e) == e = EnvProduction

\* A check that only asks for the header to be present.
SecretRejectedIfAbsent(setupSecret) == setupSecret = NULL

\* setupSecret !== 'development-only'
SecretRejected(setupSecret) == setupSecret # SetupSecret


\* A POST handler that checks the secret before the environment.
BootPostSecretFirst(secret, c) ==
    /\ boot.pc = "idle"
    /\ LET b == BootState("loop", "POST", secret, 1, <<>>, <<>>, 0, 0, StatusNone,
                          <<>>, NULL)
           refused == SecretRejected(secret) \/ BootGate(env)
       IN  /\ boot' = IF SecretRejected(secret)
                      THEN BootAnswer(b, StatusUnauthorized, <<>>, NULL)
                      ELSE IF BootGate(env) THEN BootAnswer(b, StatusForbidden, <<>>, NULL)
                      ELSE IF c = ClientThrows THEN BootAnswer(b, StatusError, <<>>, NULL)
                      ELSE b
           /\ lastOp' = Op("bootstrap:post", NoSession, boot'.status,
                           IF ~refused /\ c = ClientThrows THEN c ELSE ErrNone, {},
                           WroteNone)
    /\ UNCHANGED <<schema, users, usedIds, profiles, now, reqs, env, validation, form, nav, page>>

\* POST /api/setup/database with X-Setup-Secret `secret`, up to the statement
\* loop: the environment check, the secret check and, inside the try,
\* createClient with outcome c (a throw is answered 500 by the outer catch).
BootPost(secret, c) ==
    /\ boot.pc = "idle"
    /\ LET b == BootState("loop", "POST", secret, 1, <<>>, <<>>, 0, 0, StatusNone,
                          <<>>, NULL)
           refused == BootGate(env) \/ SecretRejected(secret)
       IN  /\ boot' = IF BootGate(env) THEN BootAnswer(b, StatusForbidden, <<>>, NULL)
                      ELSE IF SecretRejected(secret)
                      THEN BootAnswer(b, StatusUnauthorized, <<>>, NULL)
                      ELSE IF c = ClientThrows THEN BootAnswer(b, StatusError, <<>>, NULL)
                      ELSE b
           /\ lastOp' = Op("bootstrap:post", NoSession, boot'.status,
                           IF ~refused /\ c = ClientThrows THEN c ELSE ErrNone, {},
                           WroteNone)
    /\ UNCHANGED <<schema, users, usedIds, profiles, now, reqs, env, validation, form, nav, page>>

\* A loop that stops at the first statement reported as an error.
LoopPcBreakOnError(k, entry) ==
    IF k = NumStatements \/ ~entry.success THEN "check" ELSE "loop"

\* for (const sql of sqlStatements): after statement k and its entry, the loop
\* goes on with the next statement and ends after the last one.
LoopPc(k, entry) == IF k = NumStatements THEN "check" ELSE "loop"

\* One turn of the statement loop up to the end of the rpc call: statement
\* boot.k is passed to rpc, whose call has outcome o. When it returns, the
\* entry is pushed and the loop goes on; when it throws, the handler is in
\* the catch block, about to query profiles. The step records what the call
\* did: the error of its result, or that it threw.
BootStatement(o) ==
    /\ boot.pc = "loop"
    /\ o # RpcReturns => boot.faults < MaxFaults
    /\ LET k == boot.k
           r == IF ObjExecSql \in schema THEN ExecSql(schema, k)
                ELSE [err |-> ErrNoFunction, schema |-> schema]
           entry == RpcEntry(k, r.err)
       IN  /\ schema' = IF o = RpcThrows THEN schema ELSE r.schema
           /\ boot' = IF o = RpcReturns
                      THEN [boot EXCEPT !.pc = LoopPc(k, entry),
                                        !.k = k + 1,
                                        !.results = Append(@, entry),
                                        !.calls = Append(@, k)]
                      ELSE [boot EXCEPT !.pc = "fallback",
                                        !.calls = Append(@, k),
                                        !.faults = @ + 1]
           /\ lastOp' = Op("bootstrap:statement", NoSession, StatusNone,
                           IF o = RpcReturns THEN r.err ELSE o, {}, WroteNone)
    /\ UNCHANGED <<users, usedIds, profiles, now, reqs, env, validation, form, nav, page>>

\* The catch block of the turn: the query on profiles answers q, the entry is
\* pushed and the loop goes on.
BootFallback(q) ==
    /\ boot.pc = "fallback"
    /\ q \in QueryOutcomes(schema)
    /\ LET k == boot.k
           entry == CatchEntry(k, q)
       IN  boot' = [boot EXCEPT !.pc = LoopPc(k, entry),
                                !.k = k + 1,
                                !.results = Append(@, entry),
                                !.queries = @ + 1]
    /\ lastOp' = Op("bootstrap:fallback", NoSession, StatusNone,
                     IF q = QueryOk THEN ErrNone ELSE q, {}, WroteNone)
    /\ UNCHANGED <<schema, users, usedIds, profiles, now, reqs, env, validation, form, nav, page>>

\* A response that is 500 as soon as one statement's entry records an error.
BootTableCheckStrict(q) ==
    /\ boot.pc = "check"
    /\ q \in QueryOutcomes(schema)
    /\ LET b == [boot EXCEPT !.queries = @ + 1]
           failed == \E n \in 1..Len(b.results) : ~b.results[n].success
       IN  boot' = IF q = QueryThrows THEN BootAnswer(b, StatusError, <<>>, NULL)
                   ELSE IF failed \/ (q # QueryOk /\ q # QueryNoRows)
                   THEN BootAnswer(b, StatusError, b.results, NULL)
                   ELSE BootAnswer(b, StatusOk, b.results, NULL)
    /\ lastOp' = Op("bootstrap:post", NoSession, boot'.status,
                     IF q = QueryOk THEN ErrNone ELSE q, {}, WroteNone)
    /\ UNCHANGED <<schema, users, usedIds, profiles, now, reqs, env, validation, form, nav, page>>

\* After the loop: the check that profiles is accessible, and the response. A
\* thrown check ends in the handler's outer catch, whose body carries the
\* exception's message and not the results.
BootTableCheck(q) ==
    /\ boot.pc = "check"
    /\ q \in QueryOutcomes(schema)
    /\ LET b == [boot EXCEPT !.queries = @ + 1]
       IN  boot' = IF q = QueryThrows THEN BootAnswer(b, StatusError, <<>>, NULL)
                   ELSE IF q # QueryOk /\ q # QueryNoRows
                   THEN BootAnswer(b, StatusError, b.results, NULL)
                   ELSE BootAnswer(b, StatusOk, b.results, NULL)
    /\ lastOp' = Op("bootstrap:post", NoSession, boot'.status,
                     IF q = QueryOk THEN ErrNone ELSE q, {}, WroteNone)
    /\ UNCHANGED <<schema, users, usedIds, profiles, now, reqs, env, validation, form, nav, page>>

\* An answer that takes PGRST116 for an initialized database, as the POST
\* handler's checks do.
GetAnswerNoRowsInitialized(b, q) ==
    IF q = QueryOk \/ q = QueryNoRows THEN BootAnswer(b, StatusOk, <<>>, "true")
    ELSE BootAnswer(b, StatusError, <<>>, "false")

\* The answer of GET after its query answered q: initialized true without an
\* error, false with status 200 for PGRST116, false with status 500 for any
\* other error (rethrown) or a thrown query.
GetAnswer(b, q) ==
    IF q = QueryOk THEN BootAnswer(b, StatusOk, <<>>, "true")
    ELSE IF q = QueryNoRows THEN BootAnswer(b, StatusOk, <<>>, "false")
    ELSE BootAnswer(b, StatusError, <<>>, "false")

\* GET /api/setup/database: the environment check, createClient with outcome
\* c (a throw is answered by the catch) and one query on profiles answering q.
BootGet(q, c) ==
    /\ boot.pc = "idle"
    /\ q \in QueryOutcomes(schema)
    /\ LET b == BootState("idle", "GET", NULL, 0, <<>>, <<>>, 0, 0, StatusNone, <<>>,
                          NULL)
           asked == [b EXCEPT !.queries = 1]
       IN  boot' = IF BootGate(env) THEN BootAnswer(b, StatusForbidden, <<>>, NULL)
                   ELSE IF c = ClientThrows THEN BootAnswer(b, StatusError, <<>>, "false")
                   ELSE GetAnswer(asked, q)
    /\ lastOp' = Op("bootstrap:get", NoSession, boot'.status,
                     IF BootGate(env) THEN ErrNone
                     ELSE IF c = ClientThrows THEN c
                     ELSE IF q = QueryOk THEN ErrNone ELSE q, {}, WroteNone)
    /\ UNCHANGED <<schema, users, usedIds, profiles, now, reqs, env, validation, form, nav, page>>

\* ---------------------------------------------------------------- scripts/validate-env.js
\* A value of process.env is a text, written as the sequence of its parts so
\* that includes() and startsWith() can look for a part; an unset variable and
\* an empty one are both the empty text (`!value` does not tell them apart).
Includes(value, part) == \E i \in 1..Len(value) : value[i] = part
StartsWith(value, part) == Len(value) > 0 /\ value[1] = part
Unset == <<>>
Missing(value) == value = Unset

Port5432 == ":5432/"
Port6543 == ":6543/"
HostPooler == "pooler.supabase.com"
HostDirect == "supabase.co"
PgBouncer == "pgbouncer=true"

\* The query strings of a connection URL: none, the pgbouncer parameter alone,
\* and the parameter after another one.
NoParams == <<>>
ParamsPgBouncer == <<"?", PgBouncer>>
ParamsSslPgBouncer == <<"?sslmode=require&", PgBouncer>>
DbParams == {NoParams, ParamsPgBouncer, ParamsSslPgBouncer}

\* postgresql://postgres:pw@<prefix><host><port>postgres<params>
DbUrl(host, port, params) ==
    <<"postgresql://postgres:pw@aws-0.", host, port, "postgres">> \o params

DbUrls ==
    {Unset} \cup {DbUrl(h, p, q) : h \in {HostPooler, HostDirect},
                                   p \in {Port5432, Port6543}, q \in DbParams}

SupabaseUrls ==
    {Unset, <<"https://", "ref", ".supabase.co">>, <<"http://", "ref", ".supabase.co">>,
     <<"https://", "example.com">>}

\* Keys of 99 and of 100 characters.
KeyOf(n) == [i \in 1..n |-> "e"]
KeyShort == KeyOf(99)
KeyLong == KeyOf(100)
Keys == {Unset, KeyShort, KeyLong}
AppUrls == {Unset, <<"http://localhost:3000">>}

VarSupabaseUrl == "NEXT_PUBLIC_SUPABASE_URL"
VarAnonKey == "NEXT_PUBLIC_SUPABASE_ANON_KEY"
VarServiceKey == "SUPABASE_SERVICE_ROLE_KEY"
VarDatabaseUrl == "DATABASE_URL"
VarDirectUrl == "DIRECT_URL"
VarAppUrl == "NEXT_PUBLIC_APP_URL"
RequiredVars ==
    {VarSupabaseUrl, VarAnonKey, VarServiceKey, VarDatabaseUrl, VarDirectUrl, VarAppUrl}
OptionalVars == {VarServiceKey}

\* The messages the validators return (NULL: the value is accepted).
MsgMissing == "Missing value"
MsgMissingOptional == "Missing value (optional)"
MsgUrlFormat == "Invalid Supabase URL format"
MsgKeyShort == "Key seems too short"
MsgPort5432 == "Should use port 5432 for migrations"
MsgPooler == "Should use pooler.supabase.com"
MsgPort6543 == "Should use port 6543 for queries"
MsgPgBouncer == "Should include pgbouncer=true parameter"

MinKeyLength == 100

ValidateSupabaseUrl(value) ==
    IF Missing(value) THEN MsgMissing
    ELSE IF ~StartsWith(value, "https://") \/ ~Includes(value, ".supabase.co")
    THEN MsgUrlFormat
    ELSE NULL

ValidateAnonKey(value) ==
    IF Missing(value) THEN MsgMissing
    ELSE IF Len(value) < MinKeyLength THEN MsgKeyShort
    ELSE NULL

ValidateServiceKey(value) ==
    IF Missing(value) THEN MsgMissingOptional
    ELSE IF Len(value) < MinKeyLength THEN MsgKeyShort
    ELSE NULL

ValidateDatabaseUrl(value) ==
    IF Missing(value) THEN MsgMissing
    ELSE IF ~Includes(value, Port5432) THEN MsgPort5432
    ELSE IF ~Includes(value, HostPooler) THEN MsgPooler
    ELSE NULL

ValidateDirectUrl(value) ==
    IF Missing(value) THEN MsgMissing
    ELSE IF ~Includes(value, Port6543) THEN MsgPort6543
    ELSE IF ~Includes(value, PgBouncer) THEN MsgPgBouncer
    ELSE NULL

ValidateAppUrl(value) == IF Missing(value) THEN MsgMissing ELSE NULL

\* validate(value) of the entry of requiredVars named `name`.
ValidateVar(name, value) ==
    CASE name = VarSupabaseUrl -> ValidateSupabaseUrl(value)
      [] name = VarAnonKey -> ValidateAnonKey(value)
      [] name = VarServiceKey -> ValidateServiceKey(value)
      [] name = VarDatabaseUrl -> ValidateDatabaseUrl(value)
      [] name = VarDirectUrl -> ValidateDirectUrl(value)
      [] name = VarAppUrl -> ValidateAppUrl(value)

\* A test for the whole message being the word: error === 'optional'.
IncludesOptionalExact(message) == message = "optional"

\* error.includes('optional')
IncludesOptional(message) == message = MsgMissingOptional

\* States of APP_CONFIG.md.
ConfigAbsent == "absent"
ConfigPlaceholder == "[YOUR_APP_NAME]"
ConfigDone == "configured"
AppConfigs == {ConfigAbsent, ConfigPlaceholder, ConfigDone}

ExitNone == 2
ExitOk == 0
ExitFailure == 1

\* The inputs of a run: process.env after .env.local is loaded, whether
\* .env.local exists, and APP_CONFIG.md.
ValidationInputs ==
    {[vars |-> [n \in RequiredVars |->
                   CASE n = VarSupabaseUrl -> su [] n = VarAnonKey -> ak
                     [] n = VarServiceKey -> sk [] n = VarDatabaseUrl -> db
                     [] n = VarDirectUrl -> du [] n = VarAppUrl -> au],
      envFile |-> ef, appConfig |-> ac] :
        su \in SupabaseUrls, ak \in Keys, sk \in Keys, db \in DbUrls, du \in DbUrls,
        au \in AppUrls, ef \in BOOLEAN, ac \in AppConfigs}

NoInput ==
    [vars |-> [n \in RequiredVars |-> Unset], envFile |-> FALSE,
     appConfig |-> ConfigAbsent]

\* A run of the script: its inputs and, when it has ended, the message printed
\* for each variable, the names printed as errors and as warnings, and the
\* exit code.
ValidationRun(pc, input, messages, errors, warnings, exit) ==
    [pc |-> pc, input |-> input, messages |-> messages, errors |-> errors,
     warnings |-> warnings, exit |-> exit]

IdleValidation ==
    ValidationRun("idle", NoInput, [n \in RequiredVars |-> NULL], {}, {}, ExitNone)

ReadyValidation(input) ==
    ValidationRun("ready", input, [n \in RequiredVars |-> NULL], {}, {}, ExitNone)

\* node scripts/validate-env.js
ValidateEnv ==
    /\ validation.pc = "ready"
    /\ LET in == validation.input
           msg == [n \in RequiredVars |-> ValidateVar(n, in.vars[n])]
           warned == {n \in RequiredVars :
                        msg[n] # NULL /\ n \in OptionalVars /\ IncludesOptional(msg[n])}
           failed == {n \in RequiredVars : msg[n] # NULL} \ warned
           errors == failed
                     \cup (IF in.envFile THEN {} ELSE {".env.local"})
                     \cup (IF in.appConfig = ConfigAbsent THEN {"APP_CONFIG.md"} ELSE {})
           warnings == warned
                       \cup (IF in.appConfig = ConfigPlaceholder THEN {"APP_CONFIG.md"}
                             ELSE {})
       IN  validation' = ValidationRun("done", in, msg, errors, warnings,
                                       IF errors # {} THEN ExitFailure ELSE ExitOk)
    /\ UNCHANGED <<schema, users, usedIds, profiles, now, reqs, lastOp, env, boot, form, nav, page>>

\* ---------------------------------------------------------------- auth calls of the browser client
\* What a call of supabase.auth settles with: no error, an error with a
\* message, or an exception.
AuthOk == "ok"
AuthThrows == "throws"
AuthMessages == {"Email rate limit exceeded"}
AuthOutcomes == {AuthOk, AuthThrows} \cup AuthMessages

\* ---------------------------------------------------------------- reset-password form
ErrUnexpected == "An unexpected error occurred"
FormEmails == {"", "u1@x.com"}

\* The component's state (email, error, loading, success) and whether a call
\* of handleReset is waiting for resetPasswordForEmail.
FormState(email, error, loading, success, pc) ==
    [email |-> email, error |-> error, loading |-> loading, success |-> success,
     pc |-> pc]

IdleForm == FormState("", NULL, FALSE, FALSE, "idle")

\* The form is rendered unless success is set (the confirmation card replaces
\* it); its input and its submit button are disabled while loading.
FormEnabled(f) == ~f.success /\ ~f.loading

\* onChange of the email input.
SetEmail(e) ==
    /\ FormEnabled(form)
    /\ e # form.email
    /\ form' = [form EXCEPT !.email = e]
    /\ UNCHANGED <<schema, users, usedIds, profiles, now, reqs, lastOp, env, boot, validation, nav, page>>

\* handleReset up to the await: the form is submitted (the input is `required`).
HandleReset ==
    /\ FormEnabled(form)
    /\ form.email # ""
    /\ form.pc = "idle"
    /\ form' = [form EXCEPT !.error = NULL, !.loading = TRUE, !.pc = "awaiting"]
    /\ UNCHANGED <<schema, users, usedIds, profiles, now, reqs, lastOp, env, boot, validation, nav, page>>

\* A handler that resets loading at the end of the try block, with no finally.
ResetSettledNoFinally(f, o) ==
    [f EXCEPT !.error = IF o = AuthOk THEN @
                        ELSE IF o = AuthThrows THEN ErrUnexpected ELSE o,
              !.success = IF o = AuthOk THEN TRUE ELSE @,
              !.loading = IF o = AuthThrows THEN @ ELSE FALSE,
              !.pc = "idle"]

\* handleReset after the await settled with o: try, catch and finally.
ResetSettled(f, o) ==
    [f EXCEPT !.error = IF o = AuthOk THEN @
                        ELSE IF o = AuthThrows THEN ErrUnexpected ELSE o,
              !.success = IF o = AuthOk THEN TRUE ELSE @,
              !.loading = FALSE,
              !.pc = "idle"]

\* resetPasswordForEmail settles and handleReset runs to its end.
ResetSettles(o) ==
    /\ form.pc = "awaiting"
    /\ form' = ResetSettled(form, o)
    /\ UNCHANGED <<schema, users, usedIds, profiles, now, reqs, lastOp, env, boot, validation, nav, page>>

\* ---------------------------------------------------------------- navbar
MaxTimers == 2
MaxSignOuts == 1

HrefHome == "/"
NavItems == {"/dashboard", "/profile", "/settings"}
GuestLinks == {"/login", "/register"}
Hrefs == {HrefHome} \cup NavItems \cup GuestLinks

\* The component's state (isNavigating, navigatingTo), the reset timers set and
\* not yet fired (the target of the navigation that set each, oldest first),
\* the calls of handleSignOut waiting for signOut, what useUser() gives
\* (whether there is a user, and its loading flag), and the router's location.
NavState(isNavigating, navigatingTo, timers, signOuts, user, loading, path) ==
    [isNavigating |-> isNavigating, navigatingTo |-> navigatingTo, timers |-> timers,
     signOuts |-> signOuts, user |-> user, loading |-> loading, path |-> path]

IdleNav(user, loading) == NavState(FALSE, NULL, <<>>, 0, user, loading, HrefHome)

\* The controls that call handleNavigation(href) and can be activated: the
\* logo always; the links of navItems with a user (the link being navigated to
\* is styled pointer-events-none, which stops the mouse and not the keyboard);
\* the Login and Sign up buttons, rendered when useUser() is not loading and
\* gives no user, and disabled while isNavigating. (The Profile and Settings
\* items of the account menu call it for targets that are links of navItems.)
NavEnabled(n, href) ==
    \/ href = HrefHome
    \/ href \in NavItems /\ n.user
    \/ href \in GuestLinks /\ ~n.loading /\ ~n.user /\ ~n.isNavigating

\* useUser() gives a new result: it finishes loading, with a user or without
\* one, or the session it reports begins or ends. The hook decides when; the
\* component only reads it.
UseUserChanges(u) ==
    /\ nav.loading \/ nav.user # u
    /\ nav' = [nav EXCEPT !.loading = FALSE, !.user = u]
    /\ UNCHANGED <<schema, users, usedIds, profiles, now, reqs, lastOp, env, boot, validation, form, page>>

\* handleNavigation(href).
HandleNavigation(href) ==
    /\ NavEnabled(nav, href)
    /\ Len(nav.timers) < MaxTimers
    /\ nav' = [nav EXCEPT !.isNavigating = TRUE,
                          !.navigatingTo = href,
                          !.path = href,
                          !.timers = Append(@, href)]
    /\ UNCHANGED <<schema, users, usedIds, profiles, now, reqs, lastOp, env, boot, validation, form, page>>

\* The callback of the oldest pending setTimeout(..., 500).
NavigationTimeout ==
    /\ nav.timers # <<>>
    /\ nav' = [nav EXCEPT !.isNavigating = FALSE,
                          !.navigatingTo = NULL,
                          !.timers = Tail(@)]
    /\ UNCHANGED <<schema, users, usedIds, profiles, now, reqs, lastOp, env, boot, validation, form, page>>

\* handleSignOut up to the await: the Sign out item, rendered when useUser()
\* is not loading and gives a user, and disabled while isNavigating.
HandleSignOut ==
    /\ ~nav.loading
    /\ nav.user
    /\ ~nav.isNavigating
    /\ nav.signOuts < MaxSignOuts
    /\ nav' = [nav EXCEPT !.isNavigating = TRUE, !.signOuts = @ + 1]
    /\ UNCHANGED <<schema, users, usedIds, profiles, now, reqs, lastOp, env, boot, validation, form, page>>

\* signOut settles with o. When it returns, with an error object or without,
\* handleSignOut goes on: push('/'), refresh(), setIsNavigating(false). When it
\* throws, the rest of the handler is skipped. The handler does not touch the
\* user: useUser() reports the end of the session in a step of its own.
SignOutSettles(o) ==
    /\ nav.signOuts > 0
    /\ nav' = IF o = AuthThrows
              THEN [nav EXCEPT !.signOuts = @ - 1]
              ELSE [nav EXCEPT !.signOuts = @ - 1,
                               !.isNavigating = FALSE,
                               !.path = HrefHome]
    /\ UNCHANGED <<schema, users, usedIds, profiles, now, reqs, lastOp, env, boot, validation, form, page>>

\* ---------------------------------------------------------------- specification
InitStore ==
    /\ users = {}
    /\ usedIds = {}
    /\ profiles = {}
    /\ now = 0
    /\ reqs = [r \in Reqs |-> IdleReq]
    /\ lastOp = Op("init", NoSession, StatusNone, ErrNone, {}, WroteNone)
    /\ boot = IdleBoot
    /\ validation = IdleValidation
    /\ form = IdleForm
    /\ nav = IdleNav(FALSE, TRUE)
    /\ page = IdlePage

\* The identities that can have registered before supabase-setup.sql was run:
\* auth.users is there from the start, the trigger is not, so they have no
\* profile row.
EarlyUsers ==
    {U \in SUBSET {[id |-> i, email |-> e] : i \in Ids, e \in Emails} :
        \A u \in U : \A v \in U : u.id = v.id => u = v}

\* The store when supabase-setup.sql has just been run for the first time, with
\* the identities registered until then.
Init ==
    /\ schema = FullSchema
    /\ env = EnvProduction
    /\ users \in EarlyUsers
    /\ usedIds = UserIds(users)
    /\ profiles = {}
    /\ now = 0
    /\ reqs = [r \in Reqs |-> IdleReq]
    /\ lastOp = Op("init", NoSession, StatusNone, ErrNone, {}, WroteNone)
    /\ boot = IdleBoot
    /\ validation = IdleValidation
    /\ form = IdleForm
    /\ nav = IdleNav(FALSE, TRUE)
    /\ page = IdlePage

\* Identity registration and deletion and the profile-update handler, its
\* requests handled in the slots R.
RequestsIn(R) ==
    \/ \E i \in Ids, e \in Emails : CreateIdentity(i, e)
    \/ \E i \in Ids : DeleteIdentity(i)
    \/ \E r \in R, t \in Ids \cup {NoSession}, b \in Bodies : PostStart(r, t, b)
    \/ \E r \in R, net \in NetOutcomes : PostCheck(r, net)
    \/ \E r \in R, net \in NetOutcomes : PostUpsert(r, net)

Requests == RequestsIn(Reqs)

Next ==
    \/ Requests
    \/ Tick

Spec == Init /\ [][Next]_vars

\* The requests with the read paths beside them: the profile page, and ordinary
\* callers reaching the table through the store's API, where the access policy
\* decides. The clock stands still, and one profile update is handled at a
\* time while a page render and the API calls run beside it.
NextAccess ==
    \/ RequestsIn({1})
    \/ \E t \in Ids \cup {NoSession} : ProfilePage(t)
    \/ PageFindUnique
    \/ \E t \in Ids \cup {NoSession} : DashboardPage(t)
    \/ \E u \in Ids \cup {NoSession} : ApiSelect(u)
    \/ \E u \in Ids \cup {NoSession}, t \in Ids, n \in Usernames : ApiUpdate(u, t, n)

SpecAccess == Init /\ [][NextAccess]_vars

\* A fresh project: identities can register before the setup script is run.
InitSetup ==
    /\ schema = {}
    /\ env = EnvProduction
    /\ InitStore

NextSetup ==
    \/ Next
    \/ RunSetupScript

SpecSetup == InitSetup /\ [][NextSetup]_vars

\* A project being set up: the application runs in any environment, the
\* database is empty or holds only the exec_sql procedure; the bootstrap
\* endpoint is called, the script is run by hand, and identities register.
InitBootstrap ==
    /\ schema \in {{}, {ObjExecSql}}
    /\ env \in Envs
    /\ InitStore

NextBootstrap ==
    \/ \E h \in Secrets, c \in ClientOutcomes : BootPost(h, c)
    \/ \E o \in RpcOutcomes : BootStatement(o)
    \/ \E q \in {QueryOk, QueryNoRows, QueryNoTable, QueryThrows} : BootFallback(q)
    \/ \E q \in {QueryOk, QueryNoRows, QueryNoTable, QueryThrows} : BootTableCheck(q)
    \/ \E q \in {QueryOk, QueryNoRows, QueryNoTable, QueryThrows}, c \in ClientOutcomes :
          BootGet(q, c)
    \/ RunSetupScript
    \/ \E i \in Ids, e \in Emails : CreateIdentity(i, e)

SpecBootstrap == InitBootstrap /\ [][NextBootstrap]_vars

\* Runs of the environment validation script on every configuration.
InitValidate ==
    /\ schema = FullSchema
    /\ env = EnvDevelopment
    /\ users = {}
    /\ usedIds = {}
    /\ profiles = {}
    /\ now = 0
    /\ reqs = [r \in Reqs |-> IdleReq]
    /\ lastOp = Op("init", NoSession, StatusNone, ErrNone, {}, WroteNone)
    /\ boot = IdleBoot
    /\ validation \in {ReadyValidation(in) : in \in ValidationInputs}
    /\ form = IdleForm
    /\ nav = IdleNav(FALSE, TRUE)
    /\ page = IdlePage

NextValidate == ValidateEnv

SpecValidate == InitValidate /\ [][NextValidate]_vars

\* The browser: a page under the root layout, which mounts the Navbar, showing
\* the reset-password form; the visitor is signed in or not.
InitClient ==
    /\ schema = FullSchema
    /\ env = EnvProduction
    /\ users = {}
    /\ usedIds = {}
    /\ profiles = {}
    /\ now = 0
    /\ reqs = [r \in Reqs |-> IdleReq]
    /\ lastOp = Op("init", NoSession, StatusNone, ErrNone, {}, WroteNone)
    /\ boot = IdleBoot
    /\ validation = IdleValidation
    /\ form = IdleForm
    /\ nav \in {IdleNav(u, l) : u \in BOOLEAN, l \in BOOLEAN}
    /\ page = IdlePage

NextClient ==
    \/ \E e \in FormEmails : SetEmail(e)
    \/ HandleReset
    \/ \E o \in AuthOutcomes : ResetSettles(o)
    \/ \E u \in BOOLEAN : UseUserChanges(u)
    \/ \E h \in Hrefs : HandleNavigation(h)
    \/ NavigationTimeout
    \/ HandleSignOut
    \/ \E o \in AuthOutcomes : SignOutSettles(o)

\* Timers set in the browser fire, and a call of the auth client settles.
SpecClient ==
    /\ InitClient
    /\ [][NextClient]_vars
    /\ WF_vars(NavigationTimeout)
    /\ WF_vars(\E o \in AuthOutcomes : ResetSettles(o))
    /\ WF_vars(\E o \in AuthOutcomes : SignOutSettles(o))

\* ---------------------------------------------------------------- properties
\* C1 as claimed: in every state reachable by identity creations, identity
\* deletions and profile updates, each identity has exactly one profile row,
\* and that row's id is the identity's id.
C1_Original ==
    \A u \in users : Cardinality(RowsOf(profiles, u.id)) = 1

\* C1 amended: in every reachable state each identity has at most one profile
\* row (a row's id is its identity's id); an identity registered while the
\* trigger is installed has exactly one row from its registration on; an
\* identity that has a row keeps exactly one until it is deleted; an identity
\* registered before the setup script has none until a profile update of its
\* own creates it.
C1_OneProfilePerIdentity ==
    /\ [](\A u \in users : Cardinality(RowsOf(profiles, u.id)) <= 1)
    /\ [][\A i \in Ids :
            /\ (i \notin UserIds(users) /\ i \in UserIds(users')
                   /\ FullSchema \subseteq schema)
                  => Cardinality(RowsOf(profiles', i)) = 1
            /\ (i \in UserIds(users) /\ i \in UserIds(users')
                   /\ Cardinality(RowsOf(profiles, i)) = 1)
                  => Cardinality(RowsOf(profiles', i)) = 1
            /\ (i \in UserIds(users) /\ RowsOf(profiles, i) = {}
                   /\ RowsOf(profiles', i) # {})
                  => /\ lastOp'.op = "post"
                     /\ lastOp'.who = i
                     /\ lastOp'.wrote = WroteInsert
                     /\ i \in UserIds(users')]_vars

\* An identity registered before the script got its row by its own update,
\* beside an identity that has its row; every identity has one row.
C1_Witness ==
    /\ lastOp.op = "post"
    /\ lastOp.status = StatusOk
    /\ lastOp.wrote = WroteInsert
    /\ Cardinality(users) > 1
    /\ \A u \in users : Cardinality(RowsOf(profiles, u.id)) = 1

\* C2: a step that inserts identity i adds exactly one profile row, with the id
\* and the email of i and with username, fullName, avatarUrl and bio null; the
\* row is there in the state that has the identity.
C2_TriggerInsertsProfile ==
    [][\A i \in Ids :
         (i \notin UserIds(users) /\ i \in UserIds(users')) =>
            \E p \in profiles' :
               /\ p \notin profiles
               /\ profiles' = profiles \cup {p}
               /\ p.id = i
               /\ p.email = UserOf(users', i).email
               /\ p.username = NULL /\ p.fullName = NULL
               /\ p.avatarUrl = NULL /\ p.bio = NULL]_vars

\* A second identity has just been registered beside one that set its fields.
C2_Witness ==
    /\ lastOp.op = "createIdentity" /\ lastOp.err = ErrNone
    /\ RowsOf(profiles, lastOp.who) # {}
    /\ \E p \in profiles : p.id # lastOp.who /\ p.fullName # NULL

\* C3: identity creation and the trigger's profile insert are atomic: a creation
\* that reports no error leaves the identity with its profile row, and a
\* creation whose profile insert fails reports the error and leaves auth.users
\* and profiles as they were.
C3_CreationAtomic ==
    [][lastOp'.op = "createIdentity" =>
         IF lastOp'.err = ErrNone
         THEN /\ lastOp'.who \in UserIds(users')
              /\ RowsOf(profiles', lastOp'.who) # {}
         ELSE /\ users' = users
              /\ profiles' = profiles]_vars

\* A registration was refused because a profile already holds its email.
C3_Witness ==
    /\ lastOp.op = "createIdentity"
    /\ lastOp.err = ErrUnique
    /\ lastOp.wrote = WroteInsert
    /\ lastOp.who \notin UserIds(users)
    /\ profiles # {}

\* C4: deleting an identity removes its profile, and no profile row ever has an
\* id that is not the id of an existing identity, the update operation's create
\* branch included.
C4_NoOrphanProfiles ==
    \A p \in profiles : p.id \in UserIds(users)

\* An identity was deleted while its update was in flight, and the create
\* branch of that update was refused by the foreign key.
C4_Witness ==
    /\ lastOp.op = "post"
    /\ lastOp.wrote = WroteInsert
    /\ lastOp.err = ErrForeignKey
    /\ lastOp.who \in usedIds \ UserIds(users)

\* C5: no two distinct profile rows hold the same non-null username, under any
\* interleaving of profile-update requests; null usernames are not restricted.
C5_UsernameUnique ==
    \A p \in profiles : \A q \in profiles :
        (p # q /\ p.username # NULL) => p.username # q.username

\* Two requests passed the conflict check for the same username; the store
\* refused the second write.
C5_Witness ==
    /\ lastOp.op = "post"
    /\ lastOp.wrote = WroteUpdate
    /\ lastOp.err = ErrUnique
    /\ \E p \in profiles : p.id # lastOp.who /\ p.username # NULL

C7_UnauthorizedNoEffect ==
    [][/\ (lastOp'.op = "post" /\ lastOp'.status = StatusUnauthorized)
          => /\ lastOp'.who \notin UserIds(users)
             /\ lastOp'.wrote = WroteNone
             /\ lastOp'.rows = {}
             /\ UNCHANGED <<schema, users, profiles, reqs>>
       /\ \A r \in Reqs :
            (reqs[r].pc = "done" /\ reqs'[r].pc # "done")
               => reqs'[r].user \in users]_vars

\* The session of a deleted identity was refused while other rows exist.
C7_Witness ==
    /\ lastOp.op = "post"
    /\ lastOp.status = StatusUnauthorized
    /\ lastOp.who # NoSession
    /\ profiles # {}

\* Operations done on behalf of a caller: the profile-update handler's steps,
\* the profile page, and the caller's own queries through the store's API.
CallerOps ==
    {"post", "post:getUser", "post:findFirst", "page", "page:getUser", "api:select",
     "api:update"}

\* Steps of the application layer handling a profile-update request.
AppOps == {"post", "post:getUser", "post:findFirst"}

Added == ProfileIds(profiles') \ ProfileIds(profiles)
Removed == ProfileIds(profiles) \ ProfileIds(profiles')

\* C8: no step taken on behalf of caller B (a profile update, a profile-page
\* read, a select or an update through the store's API) returns or changes a
\* profile row whose id is not B.
C8_OwnRowOnly ==
    [][lastOp'.op \in CallerOps =>
         /\ \A row \in lastOp'.rows : row.id = lastOp'.who
         /\ \A p \in profiles : p.id # lastOp'.who => p \in profiles'
         /\ \A p \in profiles' : p.id # lastOp'.who => p \in profiles]_vars

\* A caller selected from profiles and got its own row while another identity's
\* row exists.
C8_Witness ==
    /\ lastOp.op = "api:select"
    /\ lastOp.rows # {}
    /\ \E p \in profiles : p.id # lastOp.who /\ p.username # NULL

\* C9 as claimed: profile rows appear only in a step of the sync trigger and
\* disappear only in a step of the cascade.
C9_Original ==
    [][/\ Added # {} => lastOp'.op = "createIdentity"
       /\ Removed # {} => lastOp'.op = "deleteIdentity"]_vars

\* C9 amended: a row disappears only by the cascade of its identity's deletion;
\* a row appears only for the identity being registered (the trigger) or, in a
\* profile update, for the caller's own existing identity when it has no row
\* yet (the upsert's create branch). No request deletes a row or inserts one
\* for another identity.
C9_InsertByTriggerOrOwnUpsert ==
    [][/\ Removed # {} =>
            /\ lastOp'.op = "deleteIdentity"
            /\ Removed = {lastOp'.who}
       /\ Added # {} =>
            /\ Added = {lastOp'.who}
            /\ \/ lastOp'.op = "createIdentity"
               \/ /\ lastOp'.op = "post"
                  /\ lastOp'.who \in UserIds(users)
       /\ lastOp'.op \in AppOps => Removed = {}]_vars

\* A profile update created the caller's row.
C9_Witness ==
    /\ lastOp.op = "post"
    /\ lastOp.status = StatusOk
    /\ lastOp.wrote = WroteInsert
    /\ RowsOf(profiles, lastOp.who) = lastOp.rows

\* What a request field is stored as.
Stored(v) == IF v \in {UNDEF, ""} THEN NULL ELSE v

C11_UpdateFrame ==
    [][(lastOp'.op = "post" /\ lastOp'.status = StatusOk) =>
         LET a == lastOp'.who
         IN  /\ \A p \in profiles : p.id # a => p \in profiles'
             /\ \A p \in profiles' : p.id # a => p \in profiles
             /\ Cardinality(RowsOf(profiles', a)) = 1
             /\ \A old \in RowsOf(profiles, a) : \A new \in RowsOf(profiles', a) :
                   /\ new.id = old.id
                   /\ new.email = old.email
                   /\ new.avatarUrl = old.avatarUrl
                   /\ new.createdAt = old.createdAt]_vars

\* A's row, created earlier, was updated at a later time beside another row
\* that holds a username.
C11_Witness ==
    /\ lastOp.op = "post"
    /\ lastOp.status = StatusOk
    /\ lastOp.wrote = WroteUpdate
    /\ \E p \in lastOp.rows : p \in profiles /\ p.createdAt < p.updatedAt
    /\ \E p \in profiles : p.id # lastOp.who /\ p.username # NULL

\* C12: every row has updatedAt at or after its createdAt; over the life of a
\* row updatedAt never decreases; a step that changes a row, and every
\* successful update of a row, leaves its updatedAt at the time of the step.
C12_UpdatedAtRefreshed ==
    [][/\ \A new \in profiles' : new.createdAt <= new.updatedAt
       /\ \A old \in profiles : \A new \in RowsOf(profiles', old.id) :
             /\ old.updatedAt <= new.updatedAt
             /\ new # old => new.updatedAt = now
       /\ (lastOp' # lastOp /\ lastOp'.wrote = WroteUpdate /\ lastOp'.err = ErrNone)
            => /\ lastOp'.rows # {}
               /\ \A new \in lastOp'.rows : new \in profiles' /\ new.updatedAt = now]_vars

\* A row created at an earlier time was updated, to no username, and carries
\* the time of the update.
C12_Witness ==
    /\ lastOp.wrote = WroteUpdate
    /\ lastOp.err = ErrNone
    /\ \E p \in lastOp.rows :
          /\ p \in profiles
          /\ p.username = NULL
          /\ p.createdAt < now
          /\ p.updatedAt = now

\* C13: every run of the setup script ends without an error (none of its
\* statements fails because its object exists), leaves exactly the objects of
\* the script installed (one sync trigger, one select policy, one update
\* policy), leaves an installed schema as it was, and a further run would
\* change nothing; with the schema installed an identity insert adds exactly
\* one profile row; a bootstrap request whose calls all executed leaves the
\* same objects installed.
C13_SetupIdempotent ==
    [][/\ (lastOp'.op = "setupScript") =>
            /\ lastOp'.err = ErrNone
            /\ schema' \cap FullSchema = FullSchema
            /\ schema' \ FullSchema = schema \ FullSchema
            /\ (FullSchema \subseteq schema => schema' = schema)
            /\ ScriptError(schema', 1) = ErrNone
            /\ RunScript(schema', schema', 1) = schema'
       /\ (lastOp'.op = "createIdentity" /\ lastOp'.err = ErrNone
              /\ FullSchema \subseteq schema) =>
            /\ Cardinality(profiles') = Cardinality(profiles) + 1
            /\ Cardinality(RowsOf(profiles', lastOp'.who)) = 1
       /\ (boot.pc = "loop" /\ boot'.pc = "check" /\ boot'.faults = 0
              /\ ObjExecSql \in schema) =>
            FullSchema \subseteq schema']_vars

\* The script was run again on a database in which the trigger had already
\* made a profile row.
C13_Witness ==
    /\ lastOp.op = "setupScript"
    /\ FullSchema \subseteq schema
    /\ profiles # {}

\* C14: when the application does not run in the development environment,
\* every bootstrap request (POST or GET) is rejected with 403, no setup
\* statement is passed to the store and no table is queried.
C14_RejectedOutsideDevelopment ==
    env # EnvDevelopment =>
        /\ boot.calls = <<>>
        /\ boot.queries = 0
        /\ boot.method # "none" => boot.pc = "idle" /\ boot.status = StatusForbidden

\* C15 as claimed: a bootstrap POST whose X-Setup-Secret is absent or is not
\* 'development-only' is answered 401 and passes no statement to the store;
\* statements are passed only for a request with exactly that value.
C15_Original ==
    /\ (boot.method = "POST" /\ boot.secret # SetupSecret) =>
          /\ boot.pc = "idle"
          /\ boot.status = StatusUnauthorized
          /\ boot.calls = <<>>
    /\ boot.calls # <<>> => boot.secret = SetupSecret

\* C15 amended: such a POST is answered 401, or 403 when the application runs
\* in production (the environment is checked first); in both cases it passes
\* no statement to the store and queries no table; statements are passed only
\* for a request with exactly that value.
C15_SecretGate ==
    /\ (boot.method = "POST" /\ boot.secret # SetupSecret) =>
          /\ boot.pc = "idle"
          /\ boot.status = IF env = EnvProduction THEN StatusForbidden
                           ELSE StatusUnauthorized
          /\ boot.calls = <<>>
          /\ boot.queries = 0
          /\ boot.results = <<>>
    /\ boot.calls # <<>> => boot.method = "POST" /\ boot.secret = SetupSecret

\* A POST with the secret in another letter case was answered 401 on a
\* database that has the exec_sql procedure.
C15_Witness ==
    /\ boot.method = "POST"
    /\ boot.secret \notin {NULL, SetupSecret}
    /\ boot.status = StatusUnauthorized
    /\ ObjExecSql \in schema

\* The first n statements, in list order.
FirstStatements(n) == [i \in 1..n |-> i]

\* In the sequence `entries` there is exactly one entry per statement, in
\* statement order.
OnePerStatement(entries, n) ==
    /\ Len(entries) = n
    /\ \A i \in 1..n : entries[i].k = i

\* A bootstrap POST that got past the environment and secret checks and was
\* answered.
BootRan == boot.method = "POST" /\ boot.pc = "idle" /\ boot.status \in {StatusOk, StatusError}

\* C16 as claimed: whichever statements fail, the POST passes every statement
\* to the store in list order and the report of its answer has exactly one
\* entry per statement, in statement order.
C16_Original ==
    BootRan =>
        /\ boot.calls = FirstStatements(NumStatements)
        /\ OnePerStatement(boot.report, NumStatements)

\* C16 amended: once its client is created, the POST passes every statement to
\* the store in list order, whichever statements fail, and records exactly one
\* entry per statement, in statement order; its answer carries these entries,
\* except that when the table check after the loop throws the answer is 500
\* without them. When createClient throws, the POST is answered 500 with no
\* statement passed and no entry.
C16_EveryStatementAttempted ==
    [][/\ boot'.pc \in {"loop", "check"} =>
            /\ boot'.calls = FirstStatements(boot'.k - 1)
            /\ OnePerStatement(boot'.results, boot'.k - 1)
       /\ boot'.pc = "fallback" =>
            /\ boot'.calls = FirstStatements(boot'.k)
            /\ OnePerStatement(boot'.results, boot'.k - 1)
       /\ boot'.pc = "check" => boot'.k = NumStatements + 1
       /\ BootRan' =>
            \/ /\ boot'.calls = FirstStatements(NumStatements)
               /\ OnePerStatement(boot'.results, NumStatements)
            \/ /\ boot'.calls = <<>>
               /\ boot'.results = <<>>
               /\ boot'.report = <<>>
               /\ boot'.status = StatusError
       /\ (boot.pc = "idle" /\ boot' # boot /\ BootRan') =>
            /\ lastOp'.err = ClientThrows
            /\ boot'.calls = <<>>
       /\ (boot.pc = "check" /\ boot'.pc = "idle") =>
            \/ boot'.report = boot'.results
            \/ /\ lastOp'.err = QueryThrows
               /\ boot'.status = StatusError
               /\ boot'.report = <<>>]_vars

\* The answer reports a failed statement followed by a successful one.
C16_Witness ==
    /\ BootRan
    /\ Len(boot.report) = NumStatements
    /\ \E i \in 1..NumStatements : \E j \in 1..NumStatements :
          i < j /\ ~boot.report[i].success /\ boot.report[j].success

\* C17: the entry recorded for a statement says success only if the call
\* executed the statement without error or its error is of the 'already exists'
\* class; after any other failure, a thrown call included, the entry is an
\* error.
C17_SuccessOnlyIfExecuted ==
    [][/\ (boot.pc = "loop" /\ boot'.k = boot.k + 1) =>
            LET entry == boot'.results[boot.k]
                raw == lastOp'.err
            IN  /\ entry.success => raw \in {ErrNone, ErrExists}
                /\ raw \notin {ErrNone, ErrExists} =>
                      ~entry.success /\ entry.error # ErrNone
       /\ (boot.pc = "fallback" /\ boot'.k = boot.k + 1) =>
            LET entry == boot'.results[boot.k]
            IN  ~entry.success /\ entry.error # ErrNone]_vars

\* C18: a status-check GET that gets past the environment check answers
\* initialized=true (status 200) exactly when its query on the profiles table
\* returned no error, and initialized=false otherwise: with status 200 when
\* the error code is PGRST116, with status 500 for any other error, a thrown
\* query or a thrown createClient (no query is made then); it answers
\* initialized=true only when the table exists.
C18_StatusCheck ==
    [][(lastOp'.op = "bootstrap:get" /\ boot'.status # StatusForbidden) =>
         LET error == lastOp'.err
         IN  /\ boot'.method = "GET" /\ boot'.pc = "idle" /\ boot'.queries \in {0, 1}
             /\ boot'.queries = 0 <=> error = ClientThrows
             /\ boot'.initialized = "true" <=> error = ErrNone
             /\ error = ErrNone => boot'.status = StatusOk /\ ObjTable \in schema
             /\ error # ErrNone =>
                   /\ boot'.initialized = "false"
                   /\ boot'.status = IF error = QueryNoRows THEN StatusOk
                                     ELSE StatusError
             /\ schema' = schema /\ profiles' = profiles]_vars

\* The status check answered 200 with initialized=false (code PGRST116) on a
\* database that holds a profile.
C18_Witness ==
    /\ lastOp.op = "bootstrap:get"
    /\ boot.initialized = "false"
    /\ boot.status = StatusOk
    /\ profiles # {}

\* C19 as claimed: a conflict lookup that fails (the table is not there, or
\* the connection fails) is answered 500; an upsert that fails (the table is
\* not there, another row holds the requested username, the caller has no row
\* and its identity is gone or its email is held by a row, or the connection
\* fails) is answered 500; every profile update answered 500 leaves the
\* profile rows as they were.
C19_Original ==
    [][/\ \A r \in Reqs :
            LET u == reqs[r].user
                b == reqs[r].body
                taken == \E p \in profiles : /\ p.id # u.id
                                             /\ Stored(b.username) # NULL
                                             /\ p.username = Stored(b.username)
                noInsert == /\ RowsOf(profiles, u.id) = {}
                            /\ \/ u \notin users
                               \/ \E p \in profiles : p.email = u.email
                failed500 == /\ lastOp'.op = "post"
                             /\ lastOp'.who = u.id
                             /\ lastOp'.status = StatusError
                             /\ lastOp'.err # ErrNone
                             /\ lastOp'.rows = {}
                             /\ reqs'[r] = IdleReq
                             /\ profiles' = profiles
            IN  /\ (reqs[r].pc = "check" /\ reqs'[r] # reqs[r]
                       /\ (ObjTable \notin schema \/ lastOp'.err = ErrNet))
                      => failed500
                /\ (reqs[r].pc = "upsert" /\ reqs'[r] # reqs[r]
                       /\ (ObjTable \notin schema \/ taken \/ noInsert
                              \/ lastOp'.err = ErrNet))
                      => failed500
       /\ (lastOp' # lastOp /\ lastOp'.op = "post" /\ lastOp'.status = StatusError)
            => profiles' = profiles]_vars

\* C19 amended: such a lookup and such an upsert are answered 500; a profile
\* update answered 500 leaves the profile rows as they were when the store
\* refused the statement or the connection failed before it; when the
\* connection fails after the store committed the upsert, the answer is 500
\* although the caller's row was written as requested, and no other row
\* changed.
C19_FailureIs500 ==
    [][/\ \A r \in Reqs :
            LET u == reqs[r].user
                b == reqs[r].body
                taken == \E p \in profiles : /\ p.id # u.id
                                             /\ Stored(b.username) # NULL
                                             /\ p.username = Stored(b.username)
                noInsert == /\ RowsOf(profiles, u.id) = {}
                            /\ \/ u \notin users
                               \/ \E p \in profiles : p.email = u.email
                answered500 == /\ lastOp'.op = "post"
                               /\ lastOp'.who = u.id
                               /\ lastOp'.status = StatusError
                               /\ lastOp'.err # ErrNone
                               /\ lastOp'.rows = {}
                               /\ reqs'[r] = IdleReq
                written == \E new \in profiles' :
                              /\ new.id = u.id
                              /\ new.email = u.email
                              /\ new.username = Stored(b.username)
                              /\ new.fullName = Stored(b.fullName)
                              /\ new.bio = Stored(b.bio)
                              /\ profiles' = (profiles \ RowsOf(profiles, u.id)) \cup {new}
            IN  /\ (reqs[r].pc = "check" /\ reqs'[r] # reqs[r]
                       /\ (ObjTable \notin schema \/ lastOp'.err = ErrNet))
                      => answered500 /\ profiles' = profiles
                /\ (reqs[r].pc = "upsert" /\ reqs'[r] # reqs[r]
                       /\ (ObjTable \notin schema \/ taken \/ noInsert
                              \/ lastOp'.err = ErrNet))
                      => /\ answered500
                         /\ (ObjTable \notin schema \/ taken \/ noInsert)
                               => profiles' = profiles
                         /\ profiles' # profiles
                               => lastOp'.err = ErrNet /\ written
       /\ (lastOp' # lastOp /\ lastOp'.op = "post" /\ lastOp'.status = StatusError
              /\ lastOp'.err # ErrNet)
            => profiles' = profiles]_vars

\* The connection failed after the store had committed an update of the
\* caller's row: the answer is 500 and the row holds the requested username.
C19_Witness ==
    /\ lastOp.op = "post"
    /\ lastOp.status = StatusError
    /\ lastOp.err = ErrNet
    /\ lastOp.wrote = WroteUpdate
    /\ RowsOf(profiles, lastOp.who) # lastOp.prev
    /\ \E p \in RowsOf(profiles, lastOp.who) : p.username # NULL
    /\ \E p \in profiles : p.id # lastOp.who

\* C20: the validation script accepts a DATABASE_URL on port 6543 (the pooled
\* connection) together with a DIRECT_URL on port 5432 (the direct connection):
\* it reports neither as an error; and it flags a configuration in which the
\* two ports are swapped.
C20_PortsAsDocumented ==
    validation.pc = "done" =>
        LET db == validation.input.vars[VarDatabaseUrl]
            du == validation.input.vars[VarDirectUrl]
            flagged == validation.errors \cup validation.warnings
        IN  /\ (db = DbUrl(HostPooler, Port6543, ParamsPgBouncer)
                  /\ du \in {DbUrl(h, Port5432, NoParams) : h \in {HostPooler, HostDirect}})
               => (VarDatabaseUrl \notin flagged /\ VarDirectUrl \notin flagged)
            /\ (~Missing(db) /\ ~Missing(du)
                  /\ Includes(db, Port5432) /\ Includes(du, Port6543))
               => (VarDatabaseUrl \in flagged \/ VarDirectUrl \in flagged)

\* C21: under any interleaving of profile updates, a request whose username is
\* held by another identity's row when its write takes effect changes no row
\* and is answered 400.
C21_ConflictAtWrite ==
    [][\A r \in Reqs :
          LET q == reqs[r]
          IN  (/\ q.pc = "upsert"
               /\ reqs'[r] # q
               /\ Truthy(q.body.username)
               /\ FindFirstOther(profiles, q.body.username, q.user.id) # {})
              => /\ profiles' = profiles
                 /\ lastOp'.op = "post"
                 /\ lastOp'.who = q.user.id
                 /\ lastOp'.status = StatusConflict]_vars

C24_EnvironmentBeforeSecret ==
    /\ (boot.method = "POST" /\ env = EnvProduction) =>
          /\ boot.pc = "idle"
          /\ boot.status = StatusForbidden
    /\ (boot.method = "POST" /\ boot.status = StatusUnauthorized) =>
          /\ env # EnvProduction
          /\ boot.secret # SetupSecret

\* In production a POST without the secret was answered 403.
C24_Witness ==
    /\ env = EnvProduction
    /\ boot.method = "POST"
    /\ boot.secret = NULL
    /\ boot.status = StatusForbidden
    /\ lastOp.op = "bootstrap:post"

\* C25: the bootstrap POST that has run its statement loop answers 500 when
\* its last query on profiles returns an error other than PGRST116 or throws,
\* and 200 with the result entries otherwise, whatever the entries record;
\* before the loop the only answer past the two gates is the 500 for a thrown
\* createClient, and a 200 is answered by the step of the last query only.
C25_StatusFromTableCheck ==
    [][/\ (boot.pc = "check" /\ boot' # boot) =>
            LET q == lastOp'.err
                bad == q \in {QueryNoTable, QueryThrows}
            IN  /\ lastOp'.op = "bootstrap:post"
                /\ boot'.pc = "idle"
                /\ Len(boot.results) = NumStatements
                /\ boot'.status = IF bad THEN StatusError ELSE StatusOk
                /\ ~bad => boot'.report = boot.results
       /\ (boot.pc = "idle" /\ boot' # boot /\ boot'.method = "POST"
              /\ boot'.pc = "idle"
              /\ boot'.status \notin {StatusForbidden, StatusUnauthorized}) =>
            /\ boot'.status = StatusError
            /\ lastOp'.err = ClientThrows
       /\ (boot' # boot /\ boot'.method = "POST" /\ boot'.status = StatusOk) =>
            boot.pc = "check"
       /\ boot'.pc \in {"loop", "fallback", "check"} => boot'.status = StatusNone]_vars

\* A POST was answered 200 although every statement's entry records an error.
C25_Witness ==
    /\ boot.method = "POST"
    /\ boot.pc = "idle"
    /\ boot.status = StatusOk
    /\ Len(boot.report) = NumStatements
    /\ \A n \in 1..Len(boot.report) : ~boot.report[n].success

\* The steps of the protected pages.
PageOps == {"page", "page:getUser", "dashboard"}

\* C26: a request for the profile page or the dashboard without a user session
\* (none, or that of an identity that no longer exists) is redirected to
\* /login by the page's first step, with no profile row read; with a session
\* the dashboard is rendered with no row read and the profile page goes on to
\* read exactly the rows whose id is the id of the user its session gave,
\* whatever happened to that identity meanwhile; no step of a page changes a
\* row.
C26_ProtectedPages ==
    [][(lastOp'.op \in PageOps /\ lastOp' # lastOp) =>
          LET who == lastOp'.who
              op == lastOp'.op
              redirected == lastOp'.err = ErrRedirect
          IN  /\ profiles' = profiles
              /\ op = "dashboard" =>
                    /\ page' = page
                    /\ lastOp'.rows = {}
                    /\ redirected <=> who \notin UserIds(users)
                    /\ ~redirected => lastOp'.status = StatusOk
              /\ op = "page:getUser" =>
                    /\ page.pc = "idle"
                    /\ who \in UserIds(users)
                    /\ lastOp'.rows = {}
                    /\ page'.pc = "findUnique"
                    /\ page'.user \in users
                    /\ page'.user.id = who
              /\ (op = "page" /\ redirected) =>
                    /\ page.pc = "idle"
                    /\ who \notin UserIds(users)
                    /\ lastOp'.rows = {}
                    /\ page' = IdlePage
              /\ (op = "page" /\ ~redirected) =>
                    /\ page.pc = "findUnique"
                    /\ who = page.user.id
                    /\ lastOp'.status = StatusOk
                    /\ lastOp'.rows = {p \in profiles : p.id = page.user.id}
                    /\ page' = IdlePage]_vars

\* The profile page read the caller's row, which holds no username, while the
\* row of another identity holds one.
C26_Witness ==
    /\ lastOp.op = "page"
    /\ lastOp.status = StatusOk
    /\ \E p \in lastOp.rows : p.id = lastOp.who /\ p.username = NULL
    /\ \E p \in profiles : p.id # lastOp.who /\ p.username # NULL

\* C27: a finished run of the validation script has exit status 1 exactly when
\* a check reported an error: a variable other than a missing
\* SUPABASE_SERVICE_ROLE_KEY got a message, .env.local is missing, or
\* APP_CONFIG.md is missing; otherwise the status is 0. A missing
\* SUPABASE_SERVICE_ROLE_KEY and a placeholder in APP_CONFIG.md are reported
\* as warnings and not as errors; a too short one is reported as an error.
C27_ExitStatus ==
    validation.pc = "done" =>
        LET in == validation.input
            sk == in.vars[VarServiceKey]
            flawed == {n \in RequiredVars : validation.messages[n] # NULL}
            varError == \E n \in flawed : ~(n = VarServiceKey /\ Missing(sk))
            anyError == \/ varError
                        \/ ~in.envFile
                        \/ in.appConfig = ConfigAbsent
        IN  /\ validation.exit = IF anyError THEN ExitFailure ELSE ExitOk
            /\ anyError <=> validation.errors # {}
            /\ \A n \in RequiredVars \ {VarServiceKey} :
                  Missing(in.vars[n]) => n \in validation.errors
            /\ Missing(sk) =>
                  /\ VarServiceKey \in validation.warnings
                  /\ VarServiceKey \notin validation.errors
            /\ (~Missing(sk) /\ Len(sk) < MinKeyLength) =>
                  VarServiceKey \in validation.errors
            /\ in.appConfig = ConfigPlaceholder =>
                  /\ "APP_CONFIG.md" \in validation.warnings
                  /\ "APP_CONFIG.md" \notin validation.errors

\* A run with no service role key and a placeholder in APP_CONFIG.md gave both
\* warnings and ended with status 0.
C27_Witness ==
    /\ validation.pc = "done"
    /\ validation.exit = ExitOk
    /\ Missing(validation.input.vars[VarServiceKey])
    /\ validation.input.appConfig = ConfigPlaceholder
    /\ validation.warnings = {VarServiceKey, "APP_CONFIG.md"}

\* C28: a submission of the reset-password form ends: the handler finishes
\* with loading false and either success true and error null, or error set to
\* a message and success as it was, whatever the auth call settled with; and
\* success, once true, stays true.
C28_ResetTerminates ==
    /\ [][/\ (form.pc = "awaiting" /\ form'.pc = "idle") =>
                /\ ~form'.loading
                /\ \/ form'.success /\ form'.error = NULL
                   \/ form'.error # NULL /\ form'.success = form.success
                /\ ~(form'.success /\ form'.error # NULL)
          /\ form.success => form'.success]_vars
    /\ (form.pc = "awaiting") ~> (form.pc = "idle" /\ ~form.loading)

\* A submission succeeded: success is set, no error is shown, loading is over.
C28_Witness ==
    /\ form.pc = "idle"
    /\ form.success
    /\ form.error = NULL
    /\ ~form.loading
    /\ form.email # ""

\* C29: isNavigating returns to false after navigations and sign-outs: once no
\* reset timer is pending and no sign-out is waiting for the auth provider,
\* nothing is left to reset it, and it is false.
C29_ReenabledWhenQuiet ==
    (nav.timers = <<>> /\ nav.signOuts = 0) => ~nav.isNavigating

\* C30: navigatingTo is non-null only while isNavigating is true; and while a
\* reset timer is pending, isNavigating is true and navigatingTo is the target
\* of the most recent navigation.
C30_NavigationFlags ==
    /\ nav.navigatingTo # NULL => nav.isNavigating
    /\ nav.timers # <<>> =>
          /\ nav.isNavigating
          /\ nav.navigatingTo = nav.timers[Len(nav.timers)]

====
